---- MODULE Spec2Model ----
(***************************************************************************)
(* Bulk IP enrichment scripts: ip2geo.py (HTTP API backend),               *)
(* bulk_geo_lookup.py (external process backend) and ip2subnet.py          *)
(* (subnet representatives).                                               *)
(*                                                                         *)
(* Text is modelled as a sequence of pieces.  A piece is either one        *)
(* whitespace character " ", the comment marker "#", or a run of other     *)
(* non-blank characters (an address literal such as "1.1.1.1", or junk     *)
(* such as "abc").  The Python string is the concatenation of the pieces.  *)
(***************************************************************************)
EXTENDS Integers, Sequences, FiniteSets, TLC

\* ------------------------------------------------------------------ bounds
MaxLines == 3
MaxWorkers == 2
MaxRetries == 3
MaxSubnetLines == 4

\* ------------------------------------------------------------ text helpers
WS == " "

Range(s) == { s[i] : i \in 1..Len(s) }

RECURSIVE lstrip(_)
lstrip(s) == IF s # <<>> /\ Head(s) = WS THEN lstrip(Tail(s)) ELSE s

RECURSIVE rstrip(_)
rstrip(s) == IF s # <<>> /\ s[Len(s)] = WS THEN rstrip(SubSeq(s, 1, Len(s) - 1)) ELSE s

\* str.strip()
strip(s) == rstrip(lstrip(s))

\* str.startswith("#")
startswith_hash(s) == s # <<>> /\ Head(s) = "#"

\* ipaddress.ip_address(s): the literals the standard library accepts, with
\* the address each denotes (version, 16-bit groups or octets).  Two spellings
\* of one IPv6 address denote the same address.  Anything else is ValueError.
Literals ==
  [ lit \in {"1.1.1.1", "8.8.8.8", "::1", "0:0:0:0:0:0:0:1",
             "10.0.0.1", "10.0.0.5", "10.0.1.1", "10.1.0.1",
             "2001:db8::1", "2001:4860::1"} |->
      CASE lit = "1.1.1.1" -> [v |-> 4, parts |-> <<1, 1, 1, 1>>]
        [] lit = "8.8.8.8" -> [v |-> 4, parts |-> <<8, 8, 8, 8>>]
        [] lit = "10.0.0.1" -> [v |-> 4, parts |-> <<10, 0, 0, 1>>]
        [] lit = "10.0.0.5" -> [v |-> 4, parts |-> <<10, 0, 0, 5>>]
        [] lit = "10.0.1.1" -> [v |-> 4, parts |-> <<10, 0, 1, 1>>]
        [] lit = "10.1.0.1" -> [v |-> 4, parts |-> <<10, 1, 0, 1>>]
        [] lit = "2001:db8::1" -> [v |-> 6, parts |-> <<8193, 3512, 0, 0, 0, 0, 0, 1>>]
        [] lit = "2001:4860::1" -> [v |-> 6, parts |-> <<8193, 18528, 0, 0, 0, 0, 0, 1>>]
        [] lit = "::1" -> [v |-> 6, parts |-> <<0, 0, 0, 0, 0, 0, 0, 1>>]
        [] lit = "0:0:0:0:0:0:0:1" -> [v |-> 6, parts |-> <<0, 0, 0, 0, 0, 0, 0, 1>>] ]

\* TRUE iff ipaddress.ip_address(s) returns (does not raise ValueError)
is_ip_literal(s) == Len(s) = 1 /\ s[1] \in DOMAIN Literals

ip_address(s) == Literals[s[1]]

\* ------------------------------------------------------------ input readers
\* bulk_geo_lookup.read_ips: [line.strip() for line in f if line.strip()]
RECURSIVE read_ips(_)
read_ips(lines) ==
  IF lines = <<>> THEN <<>>
  ELSE IF strip(Head(lines)) # <<>>
       THEN <<strip(Head(lines))>> \o read_ips(Tail(lines))
       ELSE read_ips(Tail(lines))

\* ip2geo.parse_ip_file, first loop: strip, skip blank and '#' lines
RECURSIVE parse_lines(_)
parse_lines(lines) ==
  IF lines = <<>> THEN <<>>
  ELSE LET line == strip(Head(lines)) IN
       IF line = <<>> \/ startswith_hash(line)
       THEN parse_lines(Tail(lines))
       ELSE <<line>> \o parse_lines(Tail(lines))

\* ip2geo.parse_ip_file, second loop: de-duplicate while preserving order
RECURSIVE uniq_loop(_, _, _)
uniq_loop(ips, seen, uniq) ==
  IF ips = <<>> THEN uniq
  ELSE IF Head(ips) \notin seen
       THEN uniq_loop(Tail(ips), seen \cup {Head(ips)}, Append(uniq, Head(ips)))
       ELSE uniq_loop(Tail(ips), seen, uniq)

parse_ip_file(lines) == uniq_loop(parse_lines(lines), {}, <<>>)

\* ip2subnet.iter_ips: yields (text, parsed address) for each line that
\* parses and whose parsed address was not seen before
RECURSIVE iter_ips_loop(_, _)
iter_ips_loop(lines, seen) ==
  IF lines = <<>> THEN <<>>
  ELSE LET s == strip(Head(lines)) IN
       IF s = <<>> THEN iter_ips_loop(Tail(lines), seen)
       ELSE IF ~is_ip_literal(s) THEN iter_ips_loop(Tail(lines), seen)
       ELSE IF ip_address(s) \notin seen
            THEN <<[s |-> s, ip |-> ip_address(s)]>>
                   \o iter_ips_loop(Tail(lines), seen \cup {ip_address(s)})
            ELSE iter_ips_loop(Tail(lines), seen)

iter_ips(lines) == iter_ips_loop(lines, {})

\* ------------------------------------------------------ Python values
\* None, a str, or a value of any other type (number, list, dict, bool)
PyNone == [t |-> "none", s |-> <<>>]
PyStr(s) == [t |-> "str", s |-> s]
PyOther == [t |-> "other", s |-> <<>>]

\* a key of a JSON object: missing, or present with a value
Absent == [t |-> "absent", s |-> <<>>]

\* dict.get(key): None when the key is missing
dict_get(field) == IF field.t = "absent" THEN PyNone ELSE field

\* ------------------------------------------------------------ API backend
\* What session.get(...) followed by r.json() can give for one address:
\*   kind "exc"   a requests.RequestException (timeout, connection failure,
\*                retries exhausted)
\*   kind "http"  a final response with a status and a body; the body is not
\*                JSON, JSON whose root is no object, or a JSON object with
\*                its "location" and root "country_code2" members
ExcResponse == [kind |-> "exc", status |-> 0, json |-> FALSE, root |-> "none",
                loc |-> "absent", loc_cc |-> Absent, root_cc |-> Absent]

HttpResponse(status, json, root, loc, loc_cc, root_cc) ==
  [kind |-> "http", status |-> status, json |-> json, root |-> root,
   loc |-> loc, loc_cc |-> loc_cc, root_cc |-> root_cc]

\* result of a call: it either returns (ip, cc2) or raises
Returned(ip, cc2) == [raised |-> FALSE, ip |-> ip, val |-> cc2]
Raised(ip) == [raised |-> TRUE, ip |-> ip, val |-> PyNone]

\* the call without its "except requests.RequestException" clause
fetch_uncaught_exception(ip, r) ==
  IF r.kind = "exc" THEN Raised(ip)
  ELSE IF r.status # 200 THEN Returned(ip, PyNone)
  ELSE IF ~r.json THEN Returned(ip, PyNone)
  ELSE IF r.root # "object" THEN Raised(ip)
  ELSE
    LET cc2a == IF r.loc = "dict" THEN dict_get(r.loc_cc) ELSE PyNone
        cc2b == IF cc2a = PyNone THEN dict_get(r.root_cc) ELSE cc2a
        cc2  == IF cc2b.t = "str" THEN PyStr(strip(cc2b.s)) ELSE PyNone
    IN Returned(ip, cc2)

\* ip2geo.fetch_country_code2
fetch_country_code2(ip, r) ==
  IF r.kind = "exc" THEN Returned(ip, PyNone)               \* except RequestException
  ELSE IF r.status # 200 THEN Returned(ip, PyNone)
  ELSE IF ~r.json THEN Returned(ip, PyNone)                 \* except ValueError
  ELSE IF r.root # "object" THEN Raised(ip)                 \* data.get: AttributeError
  ELSE
    LET cc2a == IF r.loc = "dict" THEN dict_get(r.loc_cc) ELSE PyNone
        cc2b == IF cc2a = PyNone THEN dict_get(r.root_cc) ELSE cc2a
        cc2  == IF cc2b.t = "str" THEN PyStr(strip(cc2b.s)) ELSE PyNone
    IN Returned(ip, cc2)

\* -------------------------------------------------------- process backend
\* What subprocess.run([cmd, ip], ...) can give:
\*   kind "timeout"  subprocess.TimeoutExpired
\*   kind "oserror"  the executable cannot be started (FileNotFoundError, ...)
\*   kind "output"   captured standard output, a sequence of lines; a line is
\*                   a key, and the text after "key =" as a sequence of
\*                   characters
ProcTimeout == [kind |-> "timeout", out |-> <<>>]
ProcOSError == [kind |-> "oserror", out |-> <<>>]
ProcOutput(lines) == [kind |-> "output", out |-> lines]
\* no process is run: run_geoip_lookup returns before subprocess.run
ProcSkipped == [kind |-> "skipped", out |-> <<>>]

OutLine(key, val) == [key |-> key, val |-> val]

UpperCase == {"A", "B", "S", "U"}
Digits == {"0", "1", "2"}

\* COUNTRY_RE on one line: country_code = ([A-Z]{2})
country_line(l) ==
  l.key = "country_code" /\ Len(l.val) = 2 /\ \A i \in 1..2 : l.val[i] \in UpperCase

\* COUNTRY_RE.search(out): the group of the first matching line, or None
RECURSIVE COUNTRY_RE_search(_)
COUNTRY_RE_search(out) ==
  IF out = <<>> THEN PyNone
  ELSE IF country_line(Head(out)) THEN PyStr(Head(out).val)
  ELSE COUNTRY_RE_search(Tail(out))

UNKNOWN == <<"UNKNOWN">>

\* bulk_geo_lookup.run_geoip_lookup
run_geoip_lookup(ip, r) ==
  IF ip = <<>> \/ startswith_hash(ip) THEN Returned(ip, PyStr(UNKNOWN))
  ELSE IF r.kind = "timeout" THEN Returned(ip, PyStr(UNKNOWN))
  ELSE IF r.kind = "oserror" THEN Returned(ip, PyStr(UNKNOWN))
  ELSE LET m == COUNTRY_RE_search(r.out)
       IN Returned(ip, PyStr(IF m # PyNone THEN m.s ELSE UNKNOWN))

\* VERSION_RE on one line: version = ... (\d{8})
version_line(l) ==
  l.key = "version" /\ Len(l.val) = 8 /\ \A i \in 1..8 : l.val[i] \in Digits

RECURSIVE VERSION_RE_search(_)
VERSION_RE_search(out) ==
  IF out = <<>> THEN PyNone
  ELSE IF version_line(Head(out)) THEN PyStr(Head(out).val)
  ELSE VERSION_RE_search(Tail(out))

\* an empty label in place of "UNKNOWN"
get_db_version_empty_label(r) ==
  IF r.kind # "output" THEN <<>>
  ELSE LET m == VERSION_RE_search(r.out)
       IN IF m # PyNone THEN m.s ELSE <<>>

\* bulk_geo_lookup.get_db_version
get_db_version(r) ==
  IF r.kind # "output" THEN UNKNOWN                           \* except Exception
  ELSE LET m == VERSION_RE_search(r.out)
       IN IF m # PyNone THEN m.s ELSE UNKNOWN

\* ------------------------------------------------------ subnet bucketer
\* a network of prefix length 8 in place of 24
network24_as_slash8(ip) ==
  IF ip.v = 4 THEN [v |-> 4, prefix |-> 24, net |-> <<ip.parts[1]>>]
  ELSE [v |-> 6, prefix |-> 24, net |-> <<ip.parts[1] \div 256>>]

\* ipaddress.ip_network(f"{ip}/16", strict=False) and .../24: the network is
\* the address with the host bits cleared.  IPv4 parts are octets, IPv6 parts
\* are 16-bit groups.
network16(ip) ==
  IF ip.v = 4 THEN [v |-> 4, prefix |-> 16, net |-> <<ip.parts[1], ip.parts[2]>>]
  ELSE [v |-> 6, prefix |-> 16, net |-> <<ip.parts[1]>>]

network24(ip) ==
  IF ip.v = 4 THEN [v |-> 4, prefix |-> 24, net |-> <<ip.parts[1], ip.parts[2], ip.parts[3]>>]
  ELSE [v |-> 6, prefix |-> 24, net |-> <<ip.parts[1], ip.parts[2] \div 256>>]

\* d[key] = value: the last address of a network replaces the earlier one
setdefault_overwrites(d, key, value) ==
  IF \E i \in 1..Len(d) : d[i].key = key
  THEN [i \in 1..Len(d) |-> IF d[i].key = key THEN [key |-> key, value |-> value] ELSE d[i]]
  ELSE Append(d, [key |-> key, value |-> value])

\* OrderedDict.setdefault(key, value) on a dict kept as a sequence of items
setdefault(d, key, value) ==
  IF \E i \in 1..Len(d) : d[i].key = key THEN d
  ELSE Append(d, [key |-> key, value |-> value])

\* list(d.values())
values(d) == [i \in 1..Len(d) |-> d[i].value]

\* ------------------------------------------------------ result assembly
\* order = {ip: idx for idx, ip in enumerate(ips)}; order.get(ip, 10**9)
BigKey == 1000000000

order_get(ips, ip) ==
  IF \E i \in 1..Len(ips) : ips[i] = ip
  THEN CHOOSE i \in 1..Len(ips) : ips[i] = ip /\ \A j \in (i + 1)..Len(ips) : ips[j] # ip
  ELSE BigKey

\* insertion of one row behind every row whose key is not larger (stable)
RECURSIVE insert_sorted(_, _, _)
insert_sorted(ips, sorted, row) ==
  IF sorted = <<>> THEN <<row>>
  ELSE IF order_get(ips, Head(sorted)[1]) <= order_get(ips, row[1])
       THEN <<Head(sorted)>> \o insert_sorted(ips, Tail(sorted), row)
       ELSE <<row>> \o sorted

RECURSIVE sort_loop(_, _, _)
sort_loop(ips, rest, sorted) ==
  IF rest = <<>> THEN sorted
  ELSE sort_loop(ips, Tail(rest), insert_sorted(ips, sorted, Head(rest)))

\* the list left in completion order
sort_results_unsorted(ips, results) == results

\* results.sort(key=lambda t: order.get(t[0], 10**9))
sort_results(ips, results) == sort_loop(ips, results, <<>>)

\* None written as the other pipeline's label
cc2_or_unknown(cc2) == IF cc2.t = "str" THEN cc2.s ELSE <<"UNKNOWN">>

\* cc2 or ""
cc2_or_empty(cc2) == IF cc2.t = "str" THEN cc2.s ELSE <<>>

\* ------------------------------------------------------------ retry policy
\* make_session: Retry(total=max_retries, status_forcelist=(429, 500, 502,
\* 503, 504), allowed_methods={"GET"}, raise_on_status=False) mounted on the
\* session.  One HTTP attempt ends in a connection-level error (connect or
\* read timeout, reset) or in a response with a status, which may carry a
\* Retry-After header.
ConnError == [kind |-> "error", status |-> 0, retry_after |-> FALSE]
StatusReply(status, retry_after) ==
  [kind |-> "status", status |-> status, retry_after |-> retry_after]

\* the forcelist without the rate-limit status
status_forcelist_no_429 == {500, 502, 503, 504}

status_forcelist == {429, 500, 502, 503, 504}

\* Retry.RETRY_AFTER_STATUS_CODES (respect_retry_after_header is left True)
RETRY_AFTER_STATUS_CODES == {413, 429, 503}

\* Retry(total=max_retries)
retry_total(max_retries) == max_retries

\* Retry.is_retry for a GET: a forced status, or a Retry-After status while
\* the total is not zero
is_retry(total, b) ==
  \/ b.status \in status_forcelist
  \/ total # 0 /\ b.retry_after /\ b.status \in RETRY_AFTER_STATUS_CODES

\* exhaustion one attempt late
is_exhausted_late(total) == total < -1

\* Retry.is_exhausted, tested by Retry.increment after total -= 1
is_exhausted(total) == total < 0

\* what r.json() gives for the final response: the service's body for a 200
FinalResponse(b) ==
  HttpResponse(b.status, TRUE, "object", "dict", PyStr(<<"US">>), Absent)

\* ------------------------------------------------------------ environment
\* lines an input file is drawn from: an address padded with whitespace, a
\* second address, an indented comment, a blank line, junk
InputLines ==
  { <<WS, "1.1.1.1", WS>>, <<"8.8.8.8">>, <<WS, "#", "abc">>, <<WS>>, <<"abc">> }

RECURSIVE FilesOfLen(_)
FilesOfLen(n) ==
  IF n = 0 THEN { <<>> }
  ELSE { Append(f, l) : f \in FilesOfLen(n - 1), l \in InputLines }

InputFiles == UNION { FilesOfLen(n) : n \in 0..MaxLines }

\* lines of the input file of ip2subnet: four IPv4 addresses in two /16 and
\* three /24 networks, two IPv6 addresses
SubnetLines ==
  { <<"10.0.0.1">>, <<"10.0.0.5">>, <<"10.0.1.1">>, <<"10.1.0.1">>,
    <<"2001:db8::1">>, <<"2001:4860::1">> }

RECURSIVE SubnetFilesOfLen(_)
SubnetFilesOfLen(n) ==
  IF n = 0 THEN { <<>> }
  ELSE { Append(f, l) : f \in SubnetFilesOfLen(n - 1), l \in SubnetLines }

SubnetFiles == UNION { SubnetFilesOfLen(n) : n \in 0..MaxSubnetLines }

\* what the geolocation service can answer for one address
ApiResponses ==
  { ExcResponse,
    HttpResponse(404, TRUE, "object", "absent", Absent, Absent),
    HttpResponse(200, FALSE, "none", "absent", Absent, Absent),
    HttpResponse(200, TRUE, "other", "absent", Absent, Absent),
    HttpResponse(200, TRUE, "object", "dict", PyStr(<<WS, "US">>), Absent),
    HttpResponse(200, TRUE, "object", "dict", PyStr(<<>>), Absent) }

\* what one HTTP attempt can end in
AttemptBehaviours ==
  { ConnError,
    StatusReply(200, FALSE), StatusReply(404, FALSE),
    StatusReply(413, FALSE), StatusReply(413, TRUE),
    StatusReply(429, FALSE), StatusReply(501, FALSE), StatusReply(503, FALSE) }

\* what the lookup executable can do for one address
ProcResponses ==
  { ProcTimeout,
    ProcOutput(<<OutLine("country_code", <<"U", "S">>)>>),
    ProcOutput(<<OutLine("country_code", <<"u", "s">>)>>) }

\* what the lookup executable can do for the version probe
ProbeResponses ==
  { ProcOSError,
    ProcOutput(<<OutLine("country_code", <<"U", "S">>),
                 OutLine("version", <<"2", "0", "2", "0", "0", "1", "0", "1">>)>>) }

\* every kind of result of the version probe: timeout, executable missing,
\* no output, output without a version line, a version line without an
\* 8-digit token, a version line with one
AllProbeResponses ==
  { ProcTimeout, ProcOSError,
    ProcOutput(<<>>),
    ProcOutput(<<OutLine("country_code", <<"U", "S">>)>>),
    ProcOutput(<<OutLine("version", <<"2", "0", "2", "0", "0", "1", "0">>)>>),
    ProcOutput(<<OutLine("country_code", <<"U", "S">>),
                 OutLine("version", <<"2", "0", "2", "0", "0", "1", "0", "1">>)>>) }

\* the backend behaviours possible for a call with this ip
Responses(p, ip) ==
  IF p = "api" THEN ApiResponses
  ELSE IF ip = <<>> \/ startswith_hash(ip) THEN {ProcSkipped}
  ELSE ProcResponses

\* ------------------------------------------------------------------ state
VARIABLES
  pipeline,   \* which script runs: "api", "proc" or "subnet"
  raw,        \* the lines of the input file
  apiKey,     \* api: --api-key or IPGEO_API_KEY is set
  workers,    \* --workers / --concurrency
  output,     \* --output: "-" (standard output, proc only) or "file"
  pc,         \* position of main()
  exitCode,   \* exit status of the process, -1 while it runs
  ips,        \* the batch returned by the input reader
  probe,      \* proc: result of the version probe
  tasks,      \* the futures: state, backend behaviour, result
  collected,  \* indices whose fut.result() main has taken
  results,    \* the results list of main()
  errors,     \* api: the errors counter
  outfile,    \* rows written to the output file (header first)
  stdout,     \* rows printed to standard output
  stderr,     \* messages printed to standard error
  sub,        \* subnet: loop index, reps16, reps24, the two output files
  call        \* api: one session.get under the retry policy of make_session

vars == <<pipeline, raw, apiKey, workers, output, pc, exitCode, ips, probe, tasks,
          collected, results, errors, outfile, stdout, stderr, sub, call>>

config == <<pipeline, raw, apiKey, workers, output>>

NoResponse == [kind |-> "none"]
NoResult == [raised |-> FALSE, ip |-> <<>>, val |-> PyNone]
NoRow == <<>>
NotWritten == <<>>
NoCall == [st |-> "none"]

ApiHeader == << <<"ip">>, <<"country_code2">> >>
ProcHeader(db_version) == << <<"ip">>, <<"country_">> \o db_version >>
EmptyHeader == << <<"ip">>, <<"country">> >>

Init ==
  /\ pipeline \in {"api", "proc", "subnet"}
  /\ raw \in InputFiles
  /\ apiKey \in (IF pipeline = "api" THEN BOOLEAN ELSE {FALSE})
  /\ workers \in (IF pipeline = "subnet" THEN {1} ELSE 1..MaxWorkers)
  /\ output \in (IF pipeline = "proc" THEN {"-", "file"} ELSE {"file"})
  /\ pc = "start"
  /\ exitCode = -1
  /\ ips = <<>>
  /\ probe = NoResponse
  /\ tasks = <<>>
  /\ collected = {}
  /\ results = <<>>
  /\ errors = 0
  /\ outfile = NotWritten
  /\ stdout = <<>>
  /\ stderr = <<>>
  /\ sub = [k |-> 0, reps16 |-> <<>>, reps24 |-> <<>>, out16 |-> <<>>, out24 |-> <<>>]
  /\ call = NoCall

\* ---------------------------------------------------------------- helpers
Message(msg, n) == [msg |-> msg, n |-> n]

Pending == [st |-> "pending", resp |-> NoResponse, res |-> NoResult]

\* executor.submit(...) for every element of the batch
submit_all(batch) == [i \in 1..Len(batch) |-> Pending]

Running == { i \in 1..Len(tasks) : tasks[i].st = "running" }
Finished == { i \in 1..Len(tasks) : tasks[i].st = "done" }

\* a pool one thread larger than configured
max_workers_plus_one == workers + 1

\* ThreadPoolExecutor(max_workers=...)
max_workers == IF pipeline = "api" THEN (IF workers > 1 THEN workers ELSE 1) ELSE workers

\* the backend call of one task
resolve(ip, r) ==
  IF pipeline = "api" THEN fetch_country_code2(ip, r) ELSE run_geoip_lookup(ip, r)

\* ------------------------------------------------------------ ip2geo.main
\* credential check, parse_ip_file, the empty-input exit, and the submission
\* of one task per ip
\* the run goes on with an empty key
StartApi_without_key_check ==
  /\ pc = "start" /\ pipeline = "api"
  /\ LET batch == parse_ip_file(raw) IN
       /\ ips' = batch
       /\ IF batch = <<>>
          THEN /\ stderr' = Append(stderr, Message("no_ips", 0))
               /\ outfile' = <<ApiHeader>>
               /\ exitCode' = 0
               /\ pc' = "done"
               /\ UNCHANGED tasks
          ELSE /\ tasks' = submit_all(batch)
               /\ pc' = "collect"
               /\ UNCHANGED <<stderr, outfile, exitCode>>
  /\ UNCHANGED <<config, call, probe, collected, results, errors, stdout, sub>>

StartApi ==
  /\ pc = "start" /\ pipeline = "api"
  /\ IF ~apiKey
     THEN /\ stderr' = Append(stderr, Message("no_api_key", 0))
          /\ exitCode' = 2
          /\ pc' = "done"
          /\ UNCHANGED <<ips, tasks, outfile>>
     ELSE LET batch == parse_ip_file(raw) IN
          /\ ips' = batch
          /\ IF batch = <<>>
             THEN /\ stderr' = Append(stderr, Message("no_ips", 0))
                  /\ outfile' = <<ApiHeader>>
                  /\ exitCode' = 0
                  /\ pc' = "done"
                  /\ UNCHANGED tasks
             ELSE /\ tasks' = submit_all(batch)
                  /\ pc' = "collect"
                  /\ UNCHANGED <<stderr, outfile, exitCode>>
  /\ UNCHANGED <<config, call, probe, collected, results, errors, stdout, sub>>

\* one step of "for fut in as_completed(futures)": a finished future not yet
\* taken; fut.result() re-raises what the task raised
CollectApi ==
  /\ pc = "collect" /\ pipeline = "api"
  /\ \E i \in Finished \ collected :
       /\ collected' = collected \cup {i}
       /\ IF tasks[i].res.raised
          THEN /\ pc' = "aborting"
               /\ UNCHANGED <<errors, results>>
          ELSE /\ errors' = IF tasks[i].res.val = PyNone THEN errors + 1 ELSE errors
               /\ results' = Append(results, <<tasks[i].res.ip, cc2_or_empty(tasks[i].res.val)>>)
               /\ pc' = pc
  /\ UNCHANGED <<config, call, exitCode, ips, probe, tasks, outfile, stdout, stderr, sub>>

\* an exception leaves the with block: the executor is shut down (waiting for
\* every task) and main ends with a traceback
Abort ==
  /\ pc = "aborting"
  /\ Finished = 1..Len(tasks)
  /\ stderr' = Append(stderr, Message("traceback", 0))
  /\ exitCode' = 1
  /\ pc' = "done"
  /\ UNCHANGED <<config, call, ips, probe, tasks, collected, results, errors, outfile, stdout, sub>>

\* after the loop: sort into input order, write the CSV, print the summary
FinishApi ==
  /\ pc = "collect" /\ pipeline = "api"
  /\ collected = 1..Len(tasks)
  /\ results' = sort_results(ips, results)
  /\ outfile' = <<ApiHeader>> \o results'
  /\ stderr' = IF errors # 0 THEN Append(stderr, Message("lookup_errors", errors)) ELSE stderr
  /\ exitCode' = 0
  /\ pc' = "done"
  /\ UNCHANGED <<config, call, ips, probe, tasks, collected, errors, stdout, sub>>

\* ---------------------------------------------------- bulk_geo_lookup.main
\* read_ips and the empty-input return
StartProc ==
  /\ pc = "start" /\ pipeline = "proc"
  /\ ips' = read_ips(raw)
  /\ IF ips' = <<>>
     THEN /\ stdout' = Append(stdout, EmptyHeader)
          /\ exitCode' = 0
          /\ pc' = "done"
     ELSE /\ pc' = "probe"
          /\ UNCHANGED <<stdout, exitCode>>
  /\ UNCHANGED <<config, call, probe, tasks, collected, results, errors, outfile, stderr, sub>>

\* get_db_version returns; the header is written; one task per ip is submitted
ProbeProcOver(probes) ==
  /\ pc = "probe"
  /\ \E r \in probes :
       /\ probe' = r
       /\ IF output = "-"
          THEN stdout' = Append(stdout, ProcHeader(get_db_version(r))) /\ UNCHANGED outfile
          ELSE outfile' = <<ProcHeader(get_db_version(r))>> /\ UNCHANGED stdout
  /\ tasks' = submit_all(ips)
  /\ results' = [i \in 1..Len(ips) |-> NoRow]
  /\ pc' = "collect"
  /\ UNCHANGED <<config, call, exitCode, ips, collected, errors, stderr, sub>>

\* the run ends with status 1 when the probe cannot start the executable
ProbeProc_fatal ==
  /\ pc = "probe"
  /\ \E r \in ProbeResponses :
       /\ probe' = r
       /\ IF r.kind = "oserror"
          THEN /\ exitCode' = 1 /\ pc' = "done"
               /\ UNCHANGED <<stdout, outfile, tasks, results>>
          ELSE /\ IF output = "-"
                  THEN stdout' = Append(stdout, ProcHeader(get_db_version(r))) /\ UNCHANGED outfile
                  ELSE outfile' = <<ProcHeader(get_db_version(r))>> /\ UNCHANGED stdout
               /\ tasks' = submit_all(ips)
               /\ results' = [i \in 1..Len(ips) |-> NoRow]
               /\ pc' = "collect"
               /\ UNCHANGED exitCode
  /\ UNCHANGED <<config, call, ips, collected, errors, stderr, sub>>

ProbeProc == ProbeProcOver(ProbeResponses)

\* one step of "for idx, fut in futures": fut.result() of the next index
CollectProc ==
  /\ pc = "collect" /\ pipeline = "proc"
  /\ LET i == Cardinality(collected) + 1 IN
       /\ i <= Len(tasks)
       /\ tasks[i].st = "done"
       /\ collected' = collected \cup {i}
       /\ IF tasks[i].res.raised
          THEN pc' = "aborting" /\ UNCHANGED results
          ELSE /\ results' = [results EXCEPT ![i] = <<tasks[i].res.ip, tasks[i].res.val.s>>]
               /\ pc' = pc
  /\ UNCHANGED <<config, call, exitCode, ips, probe, tasks, errors, outfile, stdout, stderr, sub>>

\* after the with block: the rows are written in list order
FinishProc ==
  /\ pc = "collect" /\ pipeline = "proc"
  /\ collected = 1..Len(tasks)
  /\ IF output = "-"
     THEN stdout' = stdout \o results /\ UNCHANGED outfile
     ELSE outfile' = outfile \o results /\ UNCHANGED stdout
  /\ exitCode' = 0
  /\ pc' = "done"
  /\ UNCHANGED <<config, call, ips, probe, tasks, collected, results, errors, stderr, sub>>

\* ------------------------------------------------------------ worker pool
\* a free worker takes the oldest queued task
TaskStart(i) ==
  /\ pc \in {"collect", "aborting"}
  /\ tasks[i].st = "pending"
  /\ \A j \in 1..(i - 1) : tasks[j].st # "pending"
  /\ Cardinality(Running) < max_workers
  /\ tasks' = [tasks EXCEPT ![i].st = "running"]
  /\ UNCHANGED <<config, call, pc, exitCode, ips, probe, collected, results, errors,
                 outfile, stdout, stderr, sub>>

\* the backend call of a running task ends, in any of the ways it can
TaskFinish(i) ==
  /\ pc \in {"collect", "aborting"}
  /\ tasks[i].st = "running"
  /\ \E r \in Responses(pipeline, ips[i]) :
       tasks' = [tasks EXCEPT ![i] = [st |-> "done", resp |-> r, res |-> resolve(ips[i], r)]]
  /\ UNCHANGED <<config, call, pc, exitCode, ips, probe, collected, results, errors,
                 outfile, stdout, stderr, sub>>

\* ---------------------------------------------------------- ip2subnet.main
StartSubnet ==
  /\ pc = "start" /\ pipeline = "subnet"
  /\ ips' = iter_ips(raw)
  /\ pc' = "build"
  /\ UNCHANGED <<config, call, exitCode, probe, tasks, collected, results, errors,
                 outfile, stdout, stderr, sub>>

\* one iteration of the loop of build_representatives
BucketStep ==
  /\ pc = "build"
  /\ sub.k < Len(ips)
  /\ LET pair == ips[sub.k + 1] IN
       sub' = [sub EXCEPT !.k = sub.k + 1,
                          !.reps16 = setdefault(sub.reps16, network16(pair.ip), pair.s),
                          !.reps24 = setdefault(sub.reps24, network24(pair.ip), pair.s)]
  /\ UNCHANGED <<config, call, pc, exitCode, ips, probe, tasks, collected, results, errors,
                 outfile, stdout, stderr>>

\* build_representatives returns; both files are written
WriteReps ==
  /\ pc = "build"
  /\ sub.k = Len(ips)
  /\ sub' = [sub EXCEPT !.out16 = values(sub.reps16), !.out24 = values(sub.reps24)]
  /\ stdout' = stdout \o <<Message("wrote16", Len(sub.reps16)), Message("wrote24", Len(sub.reps24))>>
  /\ exitCode' = 0
  /\ pc' = "done"
  /\ UNCHANGED <<config, call, ips, probe, tasks, collected, results, errors, outfile, stderr>>

\* ---------------------------------------- one session.get with its retries
\* one HTTP attempt of session.get(API_URL, ...): the adapter retries, gives
\* up with an exception, or hands the response to fetch_country_code2
HttpAttempt ==
  /\ call.st = "trying"
  /\ \E b \in AttemptBehaviours :
       LET made == [call EXCEPT !.attempts = call.attempts + 1, !.seen = Append(call.seen, b)]
           left == call.total - 1
           give_up(r) == [made EXCEPT !.st = "returned", !.resp = r,
                                      !.res = fetch_country_code2(call.ip, r)]
       IN IF b.kind = "error"
          THEN IF is_exhausted(left)
               THEN call' = give_up(ExcResponse)                 \* MaxRetryError
               ELSE call' = [made EXCEPT !.total = left]
          ELSE IF is_retry(call.total, b)
               THEN IF is_exhausted(left)
                    THEN call' = give_up(FinalResponse(b))         \* raise_on_status=False
                    ELSE call' = [made EXCEPT !.total = left]
               ELSE call' = give_up(FinalResponse(b))
  /\ UNCHANGED <<config, pc, exitCode, ips, probe, tasks, collected, results, errors,
                 outfile, stdout, stderr, sub>>

Next ==
  \/ StartApi
  \/ CollectApi
  \/ Abort
  \/ FinishApi
  \/ StartProc
  \/ ProbeProc
  \/ CollectProc
  \/ FinishProc
  \/ \E i \in 1..Len(tasks) : TaskStart(i)
  \/ \E i \in 1..Len(tasks) : TaskFinish(i)
  \/ StartSubnet
  \/ BucketStep
  \/ WriteReps

Spec == Init /\ [][Next]_vars

\* One call of fetch_country_code2 for one address, for every configured
\* retry count and every sequence of attempt results.
RetryInit ==
  /\ pipeline = "api" /\ raw = << <<"8.8.8.8">> >> /\ apiKey = TRUE
  /\ workers = 1 /\ output = "file"
  /\ pc = "call" /\ exitCode = -1
  /\ ips = << <<"8.8.8.8">> >>
  /\ probe = NoResponse /\ tasks = <<>> /\ collected = {} /\ results = <<>>
  /\ errors = 0 /\ outfile = NotWritten /\ stdout = <<>> /\ stderr = <<>>
  /\ sub = [k |-> 0, reps16 |-> <<>>, reps24 |-> <<>>, out16 |-> <<>>, out24 |-> <<>>]
  /\ \E n \in 0..MaxRetries :
       call = [st |-> "trying", ip |-> ips[1], n |-> n, total |-> retry_total(n),
               attempts |-> 0, seen |-> <<>>, resp |-> NoResponse, res |-> NoResult]

RetryNext == HttpAttempt

RetrySpec == RetryInit /\ [][RetryNext]_vars

\* The threads of the process are scheduled, and every backend call ends (a
\* per-call timeout bounds it): no enabled step is postponed forever.
MainStep ==
  \/ StartApi \/ CollectApi \/ Abort \/ FinishApi
  \/ StartProc \/ ProbeProc \/ CollectProc \/ FinishProc
  \/ StartSubnet \/ BucketStep \/ WriteReps

PoolStart == \E i \in 1..Len(tasks) : TaskStart(i)
PoolFinish == \E i \in 1..Len(tasks) : TaskFinish(i)

\* Runs on input files whose lines all become tasks in the resolution
\* pipelines (no blank and no comment line), written to a file.
FairInit ==
  /\ Init
  /\ \A k \in 1..Len(raw) : strip(raw[k]) # <<>> /\ ~startswith_hash(strip(raw[k]))
  /\ output = "file"

FairSpec ==
  /\ FairInit /\ [][Next]_vars
  /\ WF_vars(MainStep) /\ WF_vars(PoolStart) /\ WF_vars(PoolFinish)

\* ======================================================================
\* Properties
\* ======================================================================
Resolution == pipeline \in {"api", "proc"}

\* the CSV data rows: what follows the header in the output destination
Csv == IF pipeline = "proc" /\ output = "-" THEN stdout ELSE outfile
DataRows == IF Csv = <<>> THEN <<>> ELSE Tail(Csv)

\* the run went through the pool and ended normally
Completed == Resolution /\ pc = "done" /\ exitCode = 0 /\ tasks # <<>>

\* the outcome of task i: PyNone for Unresolved, PyStr(v) for Resolved{v}
Outcome(i) ==
  IF pipeline = "api" THEN tasks[i].res.val
  ELSE IF tasks[i].resp.kind = "output" THEN COUNTRY_RE_search(tasks[i].resp.out)
  ELSE PyNone

Unresolved(i) == Outcome(i) = PyNone

Sentinel == IF pipeline = "proc" THEN UNKNOWN ELSE <<>>

\* the label the pipeline's convention gives the outcome of task i
Label(i) == IF Unresolved(i) THEN Sentinel ELSE Outcome(i).s

TimedOut(i) ==
  \/ pipeline = "api" /\ tasks[i].resp.kind = "exc"
  \/ pipeline = "proc" /\ tasks[i].resp.kind = "timeout"

NoTaskRaised == \A i \in Finished : ~tasks[i].res.raised

\* C1: in both resolution pipelines, whatever order the tasks completed in,
\* the i-th data row of the CSV is the row of the i-th address of the batch
\* (that address, with the label of its own task).
C1_OrderPreserved ==
  Resolution =>
    \A i \in 1..Len(DataRows) :
      /\ i <= Len(ips)
      /\ i \in Finished
      /\ DataRows[i][1] = ips[i]
      /\ DataRows[i][2] = Label(i)

\* a finished API run of three addresses, two of them answered differently
C1_Witness ==
  /\ Completed /\ pipeline = "api"
  /\ Len(DataRows) = 3
  /\ DataRows[1][2] # DataRows[3][2]

\* C2 (as claimed): when no resolver call raised, a finished run has exactly
\* len(batch) data rows, each address of the batch is in exactly one row, and
\* row i carries the outcome of task i.
C2_OneRowPerAddress ==
  (Completed /\ NoTaskRaised) =>
    /\ Len(DataRows) = Len(ips)
    /\ \A a \in Range(ips) : Cardinality({ i \in 1..Len(DataRows) : DataRows[i][1] = a }) = 1
    /\ \A i \in 1..Len(DataRows) : DataRows[i] = <<tasks[i].res.ip, Label(i)>>

\* a failure of the backend, as the claim lists them
ApiFailure(r) ==
  \/ r.kind = "exc"
  \/ r.status # 200
  \/ ~r.json
  \/ r.root # "object"
  \/ /\ ~(r.loc = "dict" /\ r.loc_cc.t = "str")
     /\ ~(r.root_cc.t = "str")

ProcFailure(r) ==
  \/ r.kind # "output"
  \/ \A k \in 1..Len(r.out) : ~country_line(r.out[k])

\* C3 (as claimed): no call raises, and a call whose backend failed returns
\* the Unresolved outcome for its own address.
C3_ResolveNeverRaises ==
  Resolution =>
    \A i \in Finished :
      /\ ~tasks[i].res.raised
      /\ tasks[i].res.ip = ips[i]
      /\ (pipeline = "api" /\ ApiFailure(tasks[i].resp)) => tasks[i].res.val = PyNone
      /\ (pipeline = "proc" /\ ProcFailure(tasks[i].resp)) => tasks[i].res.val = PyStr(UNKNOWN)

\* a call that timed out returns the Unresolved outcome of its own address
\* without raising; and a run in which no call raised ends normally with one
\* row per batch element, in batch order, the timed-out addresses carrying
\* the pipeline's sentinel
C4_TimeoutSafe ==
  /\ \A i \in Finished :
       TimedOut(i) =>
         tasks[i].res = Returned(ips[i], IF pipeline = "api" THEN PyNone ELSE PyStr(UNKNOWN))
  /\ (Resolution /\ pc = "done" /\ tasks # <<>> /\ NoTaskRaised) =>
       /\ exitCode = 0
       /\ Len(DataRows) = Len(ips)
       /\ \A i \in 1..Len(ips) :
            /\ DataRows[i][1] = ips[i]
            /\ TimedOut(i) => DataRows[i][2] = Sentinel

C5_PoolSafe ==
  /\ Cardinality(Running) <= workers
  /\ (Resolution /\ pc \in {"collect", "aborting"}) => Len(tasks) = Len(ips)
  /\ \A i \in Finished : tasks[i].res.ip = ips[i]

\* C5: never more tasks run at once than the configured concurrency; exactly
\* one task is submitted per element of the batch; and every submitted task
\* is eventually executed.
C5_BoundedConcurrency ==
  /\ []C5_PoolSafe
  /\ <>(pc = "done" /\ Finished = 1..Len(tasks))

\* the pool is full and a task is waiting for a worker
C5_Witness ==
  /\ Cardinality(Running) = workers
  /\ workers = MaxWorkers
  /\ \E i \in 1..Len(tasks) : tasks[i].st = "pending"

\* the text of the k-th element of the batch
BatchText(k) == IF pipeline = "subnet" THEN ips[k].s ELSE ips[k]

\* C6 (as claimed): the batch of every reader holds no address twice, and
\* no two data rows are for the same address.
C6_Deduplicated ==
  /\ \A j, k \in 1..Len(ips) : j # k => BatchText(j) # BatchText(k)
  /\ \A j, k \in 1..Len(DataRows) : j # k => DataRows[j][1] # DataRows[k][1]

\* C7 (as claimed): no blank line and no '#' line is in the batch of any
\* pipeline, and no data row is written for one.
C7_NoBlankOrComment ==
  /\ \A k \in 1..Len(ips) : BatchText(k) # <<>> /\ ~startswith_hash(BatchText(k))
  /\ \A k \in 1..Len(DataRows) : DataRows[k][1] # <<>> /\ ~startswith_hash(DataRows[k][1])

\* C8 (as claimed): every element of the batch is an IP literal; a line that
\* is none is passed to no backend and gets no data row.
C8_OnlyValidAddresses ==
  /\ \A k \in 1..Len(ips) : is_ip_literal(BatchText(k))
  /\ \A k \in 1..Len(DataRows) : is_ip_literal(DataRows[k][1])

\* C9: in the written CSV an Unresolved outcome carries "UNKNOWN" in the
\* process pipeline and the empty string in the API pipeline, never the
\* other pipeline's sentinel, and a Resolved{v} outcome carries exactly v.
C9_SentinelMapping ==
  Resolution =>
    \A i \in 1..Len(DataRows) :
      /\ i \in Finished
      /\ (Unresolved(i) /\ pipeline = "proc") => DataRows[i][2] = <<"UNKNOWN">>
      /\ (Unresolved(i) /\ pipeline = "api") => DataRows[i][2] = <<>>
      /\ ~Unresolved(i) => DataRows[i][2] = Outcome(i).s

\* a finished API run with an unresolved and a resolved address
C9_Witness ==
  /\ Completed /\ pipeline = "api"
  /\ \E i, j \in 1..Len(DataRows) :
       /\ Unresolved(i) /\ DataRows[i][2] = <<>>
       /\ Outcome(j) = PyStr(<<"US">>) /\ DataRows[j][2] = <<"US">>

FailureCount == Cardinality({ i \in 1..Len(tasks) : Unresolved(i) })

\* C10 (as claimed): a finished run of either resolution pipeline reports
\* the number of Unresolved outcomes on standard error whenever it is not
\* zero, and reports nothing when it is zero.
C10_FailureCountReported ==
  Completed =>
    /\ FailureCount > 0 => Message("lookup_errors", FailureCount) \in Range(stderr)
    /\ \A k \in 1..Len(stderr) : stderr[k].msg = "lookup_errors" => stderr[k].n = FailureCount
    /\ FailureCount = 0 => stderr = <<>>

\* The process pipeline under every kind of result of the version probe, on
\* input files of address lines and blank lines.
ProbeInit ==
  /\ Init
  /\ pipeline = "proc"
  /\ \A k \in 1..Len(raw) : raw[k] \in { <<"8.8.8.8">>, <<WS>> }

ProbeNext ==
  \/ StartProc
  \/ ProbeProcOver(AllProbeResponses)
  \/ CollectProc
  \/ FinishProc
  \/ \E i \in 1..Len(tasks) : TaskStart(i)
  \/ \E i \in 1..Len(tasks) : TaskFinish(i)

ProbeSpec == ProbeInit /\ [][ProbeNext]_vars

\* ip2subnet on batches that share /16 and /24 networks
SubnetInit ==
  /\ pipeline = "subnet" /\ raw \in SubnetFiles /\ apiKey = FALSE
  /\ workers = 1 /\ output = "file"
  /\ pc = "start" /\ exitCode = -1
  /\ ips = <<>>
  /\ probe = NoResponse /\ tasks = <<>> /\ collected = {} /\ results = <<>>
  /\ errors = 0 /\ outfile = NotWritten /\ stdout = <<>> /\ stderr = <<>>
  /\ sub = [k |-> 0, reps16 |-> <<>>, reps24 |-> <<>>, out16 |-> <<>>, out24 |-> <<>>]
  /\ call = NoCall

SubnetNext == StartSubnet \/ BucketStep \/ WriteReps

SubnetSpec == SubnetInit /\ [][SubnetNext]_vars

\* ------------------------------------------------------------ retry claims
AttemptsMade == call.attempts
CallReturned == call.st = "returned"
LastAttempt == call.seen[Len(call.seen)]
CallUnresolved == call.res = Returned(call.ip, PyNone)
CallResolved == call.res = Returned(call.ip, PyStr(<<"US">>))
Statuses(seq) == [k \in 1..Len(seq) |-> seq[k].status]

\* C11 (as claimed): with the retry count N configured, one call makes at
\* most N HTTP attempts.
C11_AtMostNAttempts ==
  call.st # "none" => AttemptsMade <= call.n

\* C11 (amended): with the retry count N configured, one call makes at most
\* N + 1 HTTP attempts, the first one and at most N retries, never more.
C11_AtMostNRetries ==
  call.st # "none" =>
    /\ AttemptsMade <= call.n + 1
    /\ AttemptsMade = Len(call.seen)
    /\ call.st = "trying" => AttemptsMade <= call.n

\* a call that used its first attempt and all N retries
C11_Witness ==
  /\ CallReturned /\ call.n = MaxRetries
  /\ AttemptsMade = call.n + 1

\* C12 (as claimed): 429 and every 5xx status is retried while attempts
\* remain, a 4xx status other than 429 is never retried and leaves the
\* address Unresolved, 503, 503, 200 resolves, and a retryable status on the
\* last attempt leaves the address Unresolved.
C12_RetryOn429AndAny5xx ==
  call.st # "none" =>
    /\ \A k \in 1..Len(call.seen) - 1 :
         ~(call.seen[k].status \in 400..499 /\ call.seen[k].status # 429)
    /\ CallReturned =>
         /\ (LastAttempt.status = 429 \/ LastAttempt.status \in 500..599)
              => AttemptsMade = call.n + 1 /\ CallUnresolved
         /\ (LastAttempt.status \in 400..499 /\ LastAttempt.status # 429) => CallUnresolved
         /\ Statuses(call.seen) = <<503, 503, 200>> => CallResolved

\* C12 (amended): a connection error and the statuses 429, 500, 502, 503 and
\* 504 are retried while retries remain, and so is 413 when it carries a
\* Retry-After header; no other status is retried, so any other 4xx or 5xx
\* status leaves the address Unresolved at once; 503, 503, 200 resolves; a
\* retried kind of result on the last attempt leaves the address Unresolved.
C12_RetryOnForcelist ==
  LET Retried(b) == \/ b.kind = "error"
                    \/ b.status \in {429, 500, 502, 503, 504}
                    \/ b.status = 413 /\ b.retry_after
  IN call.st # "none" =>
       /\ \A k \in 1..Len(call.seen) - 1 : Retried(call.seen[k])
       /\ CallReturned =>
            /\ Retried(LastAttempt) => AttemptsMade = call.n + 1 /\ CallUnresolved
            /\ (LastAttempt.kind = "status" /\ LastAttempt.status # 200) => CallUnresolved
            /\ LastAttempt.status = 200 => CallResolved
            /\ Statuses(call.seen) = <<503, 503, 200>> => CallResolved

\* 503, 503, 200 within a budget of three attempts
C12_Witness ==
  /\ CallReturned /\ call.n = 2
  /\ Statuses(call.seen) = <<503, 503, 200>> /\ CallResolved

\* ----------------------------------------------------------- subnet claims
Batch == [p \in 1..Len(ips) |-> ips[p].s]
Building == pipeline = "subnet" /\ pc \in {"build", "done"}
ExampleFile == << <<"10.0.0.1">>, <<"10.0.0.5">>, <<"10.0.1.1">>, <<"10.1.0.1">> >>

\* position of the first address of the batch that lies in network key
FirstIn(net(_), key) ==
  CHOOSE p \in 1..Len(ips) :
    /\ net(ips[p].ip) = key
    /\ \A q \in 1..(p - 1) : net(ips[q].ip) # key

\* reps is the map of first-seen representatives of the first k addresses
FirstSeenMap(reps, net(_), k) ==
  /\ \A p \in 1..k : \E j \in 1..Len(reps) : reps[j].key = net(ips[p].ip)
  /\ \A j \in 1..Len(reps) :
       /\ \E p \in 1..k : net(ips[p].ip) = reps[j].key
       /\ FirstIn(net, reps[j].key) <= k
       /\ reps[j].value = ips[FirstIn(net, reps[j].key)].s
  /\ \A i, j \in 1..Len(reps) :
       i < j => /\ reps[i].key # reps[j].key
                /\ FirstIn(net, reps[i].key) < FirstIn(net, reps[j].key)

\* an entry of a map, once made, stays as it is
KeepsEntries(old, new) ==
  /\ Len(old) <= Len(new)
  /\ \A j \in 1..Len(old) : new[j] = old[j]

\* C13: after any prefix of the batch each prefix map holds exactly one
\* representative per distinct network seen so far, the representative is
\* the first address of the batch in that network, an entry is never
\* reassigned, and the written lists are in order of first encounter; the
\* batch 10.0.0.1, 10.0.0.5, 10.0.1.1, 10.1.0.1 gives the /24 list
\* 10.0.0.1, 10.0.1.1, 10.1.0.1 and the /16 list 10.0.0.1, 10.1.0.1.
C13_FirstSeenRepresentatives ==
  /\ [](Building =>
         /\ FirstSeenMap(sub.reps16, network16, sub.k)
         /\ FirstSeenMap(sub.reps24, network24, sub.k)
         /\ pc = "done" =>
              /\ sub.k = Len(ips)
              /\ sub.out16 = values(sub.reps16) /\ sub.out24 = values(sub.reps24)
              /\ raw = ExampleFile =>
                   /\ sub.out24 = << <<"10.0.0.1">>, <<"10.0.1.1">>, <<"10.1.0.1">> >>
                   /\ sub.out16 = << <<"10.0.0.1">>, <<"10.1.0.1">> >>)
  /\ [][KeepsEntries(sub.reps16, sub'.reps16) /\ KeepsEntries(sub.reps24, sub'.reps24)]_vars

\* the example batch, written
C13_Witness ==
  /\ pipeline = "subnet" /\ pc = "done" /\ raw = ExampleFile
  /\ sub.out24 = << <<"10.0.0.1">>, <<"10.0.1.1">>, <<"10.1.0.1">> >>
  /\ sub.out16 = << <<"10.0.0.1">>, <<"10.1.0.1">> >>

\* C18 (as claimed): no IPv6 address is placed in a bucket of prefix length
\* 16 or 24; it is rejected or bucketed under an IPv6-specific length.
C18_NoIPv4PrefixForIPv6 ==
  Building =>
    \A j \in 1..Len(sub.reps16), i \in 1..Len(sub.reps24) :
      /\ ~(sub.reps16[j].key.v = 6 /\ sub.reps16[j].key.prefix = 16)
      /\ ~(sub.reps24[i].key.v = 6 /\ sub.reps24[i].key.prefix = 24)

RECURSIVE IsSubseq(_, _)
IsSubseq(a, b) ==
  IF a = <<>> THEN TRUE
  ELSE IF b = <<>> THEN FALSE
  ELSE IF Head(a) = Head(b) THEN IsSubseq(Tail(a), Tail(b))
  ELSE IsSubseq(a, Tail(b))

IPv4Batch == \A p \in 1..Len(ips) : ips[p].ip.v = 4

\* C19: for a batch of IPv4 addresses every /16 representative is also a
\* /24 representative, the /16 list is a subsequence of the /24 list, which
\* is a subsequence of the batch, and len(reps16) <= len(reps24) <= len(batch).
C19_Nesting ==
  (Building /\ IPv4Batch) =>
    /\ Range(values(sub.reps16)) \subseteq Range(values(sub.reps24))
    /\ IsSubseq(values(sub.reps16), values(sub.reps24))
    /\ IsSubseq(values(sub.reps24), Batch)
    /\ Len(sub.reps16) <= Len(sub.reps24) /\ Len(sub.reps24) <= Len(Batch)
    /\ pc = "done" => IsSubseq(sub.out16, sub.out24) /\ IsSubseq(sub.out24, Batch)

\* a written IPv4 batch with fewer /16 than /24 representatives and fewer
\* /24 representatives than addresses
C19_Witness ==
  /\ pipeline = "subnet" /\ pc = "done" /\ IPv4Batch
  /\ 1 < Len(sub.out16) /\ Len(sub.out16) < Len(sub.out24) /\ Len(sub.out24) < Len(Batch)

\* ------------------------------------------------- start-up and empty input
\* C14 (as claimed): a run of either resolution pipeline on an empty batch
\* ends normally with a CSV of exactly the header row in its configured
\* output destination, and has invoked no resolver.
C14_EmptyBatchHeaderOnly ==
  (Resolution /\ pc = "done" /\ ips = <<>> /\ (pipeline = "api" => apiKey)) =>
    /\ exitCode = 0
    /\ Len(Csv) = 1 /\ DataRows = <<>>
    /\ tasks = <<>> /\ probe = NoResponse /\ call = NoCall

\* C15: a run of the API pipeline without a credential never submits a
\* lookup and never writes the output file, whatever the input file holds,
\* and ends with a non-zero exit status.
C15_MissingCredentialFatal ==
  (pipeline = "api" /\ ~apiKey) =>
    /\ tasks = <<>> /\ call = NoCall
    /\ outfile = NotWritten /\ stdout = <<>>
    /\ pc \in {"start", "done"}
    /\ pc = "done" => exitCode > 0 /\ Message("no_api_key", 0) \in Range(stderr)

\* a run without credential on a file with addresses, ended
C15_Witness ==
  /\ pipeline = "api" /\ ~apiKey /\ pc = "done" /\ exitCode = 2
  /\ parse_ip_file(raw) # <<>>

ProbeFailed == pipeline = "proc" /\ probe = ProcOSError

\* C16 (as claimed): when the start-up probe cannot invoke the executable,
\* no task is submitted, nothing is written, and the run ends with a
\* non-zero exit status.
C16_ProbeFailureFatal ==
  ProbeFailed =>
    /\ tasks = <<>> /\ Csv = <<>>
    /\ pc = "done" => exitCode > 0

\* C16 (amended): when the start-up probe cannot invoke the executable the
\* run goes on: the header is written with the version label UNKNOWN, one
\* task per batch element is submitted, and the run ends with exit status
\* zero and one row per batch element.
C16_ProbeFailureNotFatal ==
  ProbeFailed =>
    /\ Csv # <<>> /\ Csv[1] = << <<"ip">>, <<"country_", "UNKNOWN">> >>
    /\ ips # <<>> /\ Len(tasks) = Len(ips)
    /\ pc \in {"collect", "done"}
    /\ pc = "done" => exitCode = 0 /\ Len(DataRows) = Len(ips)

\* a finished run whose probe could not invoke the executable
C16_Witness ==
  /\ ProbeFailed /\ pc = "done" /\ exitCode = 0
  /\ Len(DataRows) = Len(ips)

\* the 8-digit tokens of the version lines of a probe output
VersionTokens(r) ==
  { r.out[k].val : k \in { j \in 1..Len(r.out) :
      /\ r.out[j].key = "version" /\ Len(r.out[j].val) = 8
      /\ \A c \in 1..8 : r.out[j].val[c] \in {"0", "1", "2"} } }

\* C17: for every probe result (timeout, missing executable, no output, no
\* match, match) the version label is the 8-digit token of the probe output
\* if it has one and "UNKNOWN" otherwise; the probe never ends the run: the
\* header with that label is written, one task per batch element is
\* submitted, and the run ends normally.
C17_VersionNeverAborts ==
  (pipeline = "proc" /\ probe # NoResponse) =>
    LET tokens == IF probe.kind = "output" THEN VersionTokens(probe) ELSE {}
        label == Tail(Csv[1][2])
    IN /\ Csv # <<>>
       /\ Csv[1][1] = <<"ip">> /\ Head(Csv[1][2]) = "country_"
       /\ tokens # {} => label \in tokens /\ Len(label) = 8
       /\ tokens = {} => label = <<"UNKNOWN">>
       /\ Len(tasks) = Len(ips)
       /\ pc \in {"collect", "done"}
       /\ pc = "done" => exitCode = 0 /\ Len(DataRows) = Len(ips)

\* a finished run whose probe timed out, and one whose probe found a version
C17_Witness ==
  /\ pipeline = "proc" /\ pc = "done" /\ exitCode = 0 /\ tasks # <<>>
  /\ \/ probe = ProcTimeout /\ Csv[1] = ProcHeader(UNKNOWN)
     \/ probe.kind = "output" /\ VersionTokens(probe) # {} /\ Csv[1] # ProcHeader(UNKNOWN)

\* ------------------------------------------------------ blank rows and errors
BlankRows == { i \in 1..Len(DataRows) : DataRows[i][2] = <<>> }

\* C20 (as claimed): in a finished run of the API pipeline a row has an
\* empty label exactly when the lookup of its address was counted as an
\* error, and the number of rows with an empty label is the error count.
C20_BlankRowsAreErrors ==
  (Completed /\ pipeline = "api") =>
    /\ \A i \in 1..Len(DataRows) : (i \in BlankRows) <=> (tasks[i].res.val = PyNone)
    /\ Cardinality(BlankRows) = errors

====
